---- MODULE Spec2Model ----
(***************************************************************************)
(* A model of the ai-python-starter-template command-line client:          *)
(*   - parse_params and the CLI dispatcher main()  (ai_starter/main.py)    *)
(*   - ExampleService                (ai_starter/services/example_service) *)
(*   - setup_logger / get_logger     (ai_starter/logging.py)               *)
(*                                                                         *)
(* Text is a sequence of characters (one-character strings).  A literal    *)
(* of an f-string is kept as one element, the interpolated text as its     *)
(* characters.  The character "sup2" stands for U+00B2 SUPERSCRIPT TWO,    *)
(* for which str.isdigit() is True and int()/float() raise ValueError.     *)
(* The other characters outside printable ASCII are written by their code  *)
(* point ("U+000B"), and so is the grave accent ("U+0060").                *)
(* A dict is the sequence of its <<key, value>> items in insertion order.  *)
(* A KeyboardInterrupt may be delivered between any two steps of main().   *)
(***************************************************************************)
EXTENDS Integers, Sequences, FiniteSets, TLC

VARIABLES pc,           \* position of the process ("start" ... "exited")
          argv,         \* the command line: [command, params]
          settings,     \* AppSettings: [api_base_url, log_level]
          files,        \* the working directory as setup_logger finds it
          handlers,     \* the sinks of the loguru logger, in order of addition
          loggerCalls,  \* the logger calls made so far: [op, level, raised]
          service,      \* the ExampleService of this invocation
          requests,     \* the GETs handed to the session: [url, params, timeout]
          result,       \* outcome of the last operation applied
          stdout,       \* what was printed to standard output
          exitCode,     \* exit code of the process, once it has one
          interrupted,  \* a KeyboardInterrupt was delivered
          net,          \* what became of the GET: the network's answer, or
                        \* the failure to send it
          retval        \* the value a return statement inside the scope gave

vars == <<pc, argv, settings, files, handlers, loggerCalls, service, requests,
          result, stdout, exitCode, interrupted, net, retval>>

\* ------------------------------------------------------------------ bounds

\* Tokens are enumerated exhaustively up to this length (SpecParse).
MaxTokLen == 3
\* --params occurrences in one invocation (Spec).
MaxParams == 2
\* Trailing slashes appended to a base URL.
MaxSlashes == 2
\* Logger calls in one process (SpecLogger).
MaxLoggerCalls == 4

\* ----------------------------------------------------------------- values

None == [some |-> FALSE]
Some(x) == [some |-> TRUE, v |-> x]

Return(x) == [raised |-> FALSE, value |-> x]
Raise(cls, msg) == [raised |-> TRUE, exc |-> cls, msg |-> msg]
NoResult == [raised |-> FALSE, value |-> None]

EmptyDict == << >>
Keys(d) == {d[i][1] : i \in 1..Len(d)}
\* d[k] = v: a new key is appended, a present one keeps its place
Put(d, k, v) ==
    IF k \in Keys(d)
    THEN [i \in 1..Len(d) |-> IF d[i][1] = k THEN <<k, v>> ELSE d[i]]
    ELSE Append(d, <<k, v>>)

SeqsUpTo(S, n) == UNION {[1..k -> S] : k \in 0..n}

\* sub occurs in s as a contiguous run
Contains(s, sub) ==
    \E i \in 1..(Len(s) + 1) :
        /\ i + Len(sub) - 1 <= Len(s)
        /\ SubSeq(s, i, i + Len(sub) - 1) = sub

\* ----------------------------------------------------------- str methods

DecimalChars == {"0", "1", "2", "3", "4", "5", "6", "7", "8", "9"}
SuperTwo == "sup2"

DigitValue(c) ==
    CASE c = "0" -> 0 [] c = "1" -> 1 [] c = "2" -> 2 [] c = "3" -> 3
      [] c = "4" -> 4 [] c = "5" -> 5 [] c = "6" -> 6 [] c = "7" -> 7
      [] c = "8" -> 8 [] c = "9" -> 9

\* str.isdigit(): decimal digits, and digits such as U+00B2
isdigit(s) == Len(s) > 0 /\ \A i \in 1..Len(s) : s[i] \in DecimalChars \cup {SuperTwo}

UpperLetters ==
    <<"A", "B", "C", "D", "E", "F", "G", "H", "I", "J", "K", "L", "M",
      "N", "O", "P", "Q", "R", "S", "T", "U", "V", "W", "X", "Y", "Z">>
LowerLetters ==
    <<"a", "b", "c", "d", "e", "f", "g", "h", "i", "j", "k", "l", "m",
      "n", "o", "p", "q", "r", "s", "t", "u", "v", "w", "x", "y", "z">>

UpperChar(c) ==
    IF \E i \in 1..26 : LowerLetters[i] = c
    THEN UpperLetters[CHOOSE i \in 1..26 : LowerLetters[i] = c]
    ELSE c

lower(s) ==
    LET LowerChar(c) ==
            IF \E i \in 1..26 : UpperLetters[i] = c
            THEN LowerLetters[CHOOSE i \in 1..26 : UpperLetters[i] = c]
            ELSE c
    IN [i \in 1..Len(s) |-> LowerChar(s[i])]
upper(s) == [i \in 1..Len(s) |-> UpperChar(s[i])]

\* The characters of the model: printable ASCII in code order (the i-th has
\* code point 31 + i; the grave accent is written by its code point), and
\* the characters below, named by their code point.
AsciiPrintable ==
    <<" ", "!", "\"", "#", "$", "%", "&", "'", "(", ")", "*", "+", ",", "-", ".", "/",
      "0", "1", "2", "3", "4", "5", "6", "7", "8", "9", ":", ";", "<", "=", ">", "?",
      "@", "A", "B", "C", "D", "E", "F", "G", "H", "I", "J", "K", "L", "M", "N", "O",
      "P", "Q", "R", "S", "T", "U", "V", "W", "X", "Y", "Z", "[", "\\", "]", "^", "_",
      "U+0060", "a", "b", "c", "d", "e", "f", "g", "h", "i", "j", "k", "l", "m", "n", "o",
      "p", "q", "r", "s", "t", "u", "v", "w", "x", "y", "z", "{", "|", "}", "~">>

NamedChars ==
    {<<"\t", 9>>, <<"\n", 10>>, <<"U+000B", 11>>, <<"\f", 12>>, <<"\r", 13>>,
     <<"U+001C", 28>>, <<"U+001D", 29>>, <<"U+001E", 30>>, <<"U+001F", 31>>,
     <<"U+0085", 133>>, <<"U+00A0", 160>>, <<SuperTwo, 178>>, <<"U+1680", 5760>>,
     <<"U+2000", 8192>>, <<"U+2001", 8193>>, <<"U+2002", 8194>>, <<"U+2003", 8195>>,
     <<"U+2004", 8196>>, <<"U+2005", 8197>>, <<"U+2006", 8198>>, <<"U+2007", 8199>>,
     <<"U+2008", 8200>>, <<"U+2009", 8201>>, <<"U+200A", 8202>>, <<"U+2028", 8232>>,
     <<"U+2029", 8233>>, <<"U+202F", 8239>>, <<"U+205F", 8287>>, <<"U+3000", 12288>>}

\* ord(c); a character outside the model's has none
CodePoint(c) ==
    IF \E i \in 1..Len(AsciiPrintable) : AsciiPrintable[i] = c
    THEN 31 + (CHOOSE i \in 1..Len(AsciiPrintable) : AsciiPrintable[i] = c)
    ELSE (CHOOSE p \in NamedChars : p[1] = c)[2]

\* the characters str.strip() removes when it is given no argument
\* (str.isspace()): all of the named characters but U+00B2, and the space
Whitespace == {" "} \cup {p[1] : p \in {q \in NamedChars : q[1] # SuperTwo}}

HexDigits == <<"0", "1", "2", "3", "4", "5", "6", "7", "8", "9", "A", "B", "C", "D", "E", "F">>

\* the two hexadecimal digits of a byte
HexByte(b) == <<HexDigits[(b \div 16) + 1], HexDigits[(b % 16) + 1]>>

\* the bytes of c.encode("utf-8")
Utf8(c) ==
    LET n == CodePoint(c) IN
    IF n < 128 THEN <<n>>
    ELSE IF n < 2048 THEN <<192 + (n \div 64), 128 + (n % 64)>>
    ELSE <<224 + (n \div 4096), 128 + ((n \div 64) % 64), 128 + (n % 64)>>

\* repr(c) inside a literal delimited by quote; str.isprintable() holds of
\* every character but the whitespace other than the space
ReprChar(c, quote) ==
    LET n == CodePoint(c)
        IsPrintable == c \notin Whitespace \ {" "}
    IN
    IF c = "\\" THEN <<"\\", "\\">>
    ELSE IF c = quote THEN <<"\\", c>>
    ELSE IF c = "\t" THEN <<"\\", "t">>
    ELSE IF c = "\n" THEN <<"\\", "n">>
    ELSE IF c = "\r" THEN <<"\\", "r">>
    ELSE IF IsPrintable THEN <<c>>
    ELSE IF n < 256 THEN <<"\\", "x">> \o lower(HexByte(n))
    ELSE <<"\\", "u">> \o lower(HexByte(n \div 256) \o HexByte(n % 256))

RECURSIVE ReprChars(_, _)
ReprChars(s, quote) ==
    IF s = << >> THEN << >> ELSE ReprChar(Head(s), quote) \o ReprChars(Tail(s), quote)

\* repr(s): double quotes when s holds a single quote and no double quote
ReprQuote(s) ==
    IF (\E i \in 1..Len(s) : s[i] = "'") /\ ~(\E i \in 1..Len(s) : s[i] = "\"")
    THEN "\"" ELSE "'"

repr(s) == <<ReprQuote(s)>> \o ReprChars(s, ReprQuote(s)) \o <<ReprQuote(s)>>

RECURSIVE lstrip(_, _)
lstrip(s, chars) == IF s # << >> /\ Head(s) \in chars THEN lstrip(Tail(s), chars) ELSE s

RECURSIVE rstrip(_, _)
rstrip(s, chars) ==
    IF s # << >> /\ s[Len(s)] \in chars THEN rstrip(SubSeq(s, 1, Len(s) - 1), chars) ELSE s

strip(s) == rstrip(lstrip(s, Whitespace), Whitespace)

count(s, ch) == Cardinality({i \in 1..Len(s) : s[i] = ch})

RECURSIVE remove(_, _)
remove(s, ch) ==
    IF s = << >> THEN << >>
    ELSE IF Head(s) = ch THEN remove(Tail(s), ch)
    ELSE <<Head(s)>> \o remove(Tail(s), ch)

\* param.split("=", 1) of a param that holds "="
FirstEq(s) == CHOOSE i \in 1..Len(s) : s[i] = "=" /\ \A j \in 1..(i - 1) : s[j] # "="
split(s) == [key |-> SubSeq(s, 1, FirstEq(s) - 1), value |-> SubSeq(s, FirstEq(s) + 1, Len(s))]

RECURSIVE DecimalOf(_)
DecimalOf(s) == IF s = << >> THEN 0 ELSE 10 * DecimalOf(SubSeq(s, 1, Len(s) - 1)) + DigitValue(s[Len(s)])

AllDecimal(s) == \A i \in 1..Len(s) : s[i] \in DecimalChars

\* int(value) of a value for which isdigit() holds
int(value) ==
    IF AllDecimal(value) THEN Return([t |-> "int", n |-> DecimalOf(value)])
    ELSE Raise("ValueError", <<"invalid literal for int() with base 10: ">> \o repr(value))

\* a decimal fraction num / 10^scale in lowest form: 1.50 and 1.5 are one float
RECURSIVE Normal(_, _)
Normal(num, scale) ==
    IF scale > 0 /\ num % 10 = 0 THEN Normal(num \div 10, scale - 1)
    ELSE [t |-> "float", num |-> num, scale |-> scale]

\* float(value) of a value with one "." whose other characters satisfy isdigit()
float(value) ==
    IF AllDecimal(remove(value, "."))
    THEN LET dot == CHOOSE i \in 1..Len(value) : value[i] = "."
         IN Return(Normal(DecimalOf(remove(value, ".")), Len(value) - dot))
    ELSE Raise("ValueError", <<"could not convert string to float: ">> \o repr(value))

\* ------------------------------------------------------------ parse_params

\* The conversion of one value (main.py lines 84-92).
Coerce(value) ==
    IF lower(value) \in {<<"t", "r", "u", "e">>, <<"f", "a", "l", "s", "e">>}
    THEN Return([t |-> "bool", b |-> lower(value) = <<"t", "r", "u", "e">>])
    ELSE IF isdigit(value) THEN int(value)
    ELSE IF isdigit(remove(value, ".")) /\ count(value, ".") = 1 THEN float(value)
    ELSE Return([t |-> "str", s |-> value])

RECURSIVE ParseLoopLenient(_, _, _)
ParseLoopLenient(params_list, i, parsed_params) ==
    IF i > Len(params_list) THEN Return(parsed_params)
    ELSE LET param == params_list[i] IN
         IF ~Contains(param, <<"=">>) \/ strip(split(param).key) = << >>
         THEN ParseLoopLenient(params_list, i + 1, parsed_params)
         ELSE LET c == Coerce(strip(split(param).value)) IN
              IF c.raised THEN c
              ELSE ParseLoopLenient(params_list, i + 1,
                                    Put(parsed_params, strip(split(param).key), c.value))

\* The for loop of parse_params from its i-th token on.
RECURSIVE ParseLoop(_, _, _)
ParseLoop(params_list, i, parsed_params) ==
    IF i > Len(params_list) THEN Return(parsed_params)
    ELSE LET param == params_list[i] IN
         IF ~Contains(param, <<"=">>)
         THEN Raise("ValueError", <<"Invalid parameter format: ">> \o param
                                      \o <<". Expected 'key=value'">>)
         ELSE LET key == strip(split(param).key)
                  value == strip(split(param).value)
              IN IF key = << >>
                 THEN Raise("ValueError", <<"Empty key in parameter: ">> \o param)
                 ELSE LET c == Coerce(value) IN
                      IF c.raised THEN c
                      ELSE ParseLoop(params_list, i + 1, Put(parsed_params, key, c.value))

parse_params(params_list) ==
    IF params_list = << >> THEN Return(EmptyDict)
    ELSE ParseLoop(params_list, 1, EmptyDict)

\* ---------------------------------------------------------- ExampleService

DefaultTimeout == 30

DefaultHeaders ==
    ("User-Agent" :> "ExampleService/1.0") @@ ("Accept" :> "application/json")
        @@ ("Content-Type" :> "application/json")

NoService ==
    [constructed |-> FALSE, base_url |-> << >>, timeout |-> DefaultTimeout,
     session |-> "none", closes |-> 0, headers |-> EmptyDict]

\* a variant of rstrip that takes one trailing character only
rstripOne(s, ch) == IF s # << >> /\ s[Len(s)] = ch THEN SubSeq(s, 1, Len(s) - 1) ELSE s

\* base_url.rstrip('/')
NormalizeBaseOneSlash(base_url) == rstripOne(base_url, "/")
NormalizeBase(base_url) == rstrip(base_url, {"/"})

\* ExampleService.__init__
ExampleService(base_url) ==
    [constructed |-> TRUE, base_url |-> NormalizeBase(base_url),
     timeout |-> DefaultTimeout, session |-> "open", closes |-> 0,
     headers |-> DefaultHeaders]

\* url = f"{self.base_url}/get"
RequestUrl(svc) == svc.base_url \o <<"/", "g", "e", "t">>

StartsWith(s, prefix) == Len(prefix) <= Len(s) /\ SubSeq(s, 1, Len(prefix)) = prefix

DigitChar(d) ==
    CASE d = 0 -> "0" [] d = 1 -> "1" [] d = 2 -> "2" [] d = 3 -> "3" [] d = 4 -> "4"
      [] d = 5 -> "5" [] d = 6 -> "6" [] d = 7 -> "7" [] d = 8 -> "8" [] d = 9 -> "9"

RECURSIVE IntChars(_)
IntChars(n) == IF n < 10 THEN <<DigitChar(n)>> ELSE IntChars(n \div 10) \o <<DigitChar(n % 10)>>

RECURSIVE Pow10(_)
Pow10(k) == IF k = 0 THEN 1 ELSE 10 * Pow10(k - 1)

RECURSIVE ZeroPad(_, _)
ZeroPad(s, width) == IF Len(s) >= width THEN s ELSE ZeroPad(<<"0">> \o s, width)

\* str(x) of a float num / 10^scale of at most 15 significant digits, below
\* 10^16: positional notation, and exponent notation under 0.0001
FloatChars(num, scale) ==
    IF num # 0 /\ num * 10000 < Pow10(scale)
    THEN LET d == IntChars(num) IN
         <<Head(d)>> \o (IF Len(d) > 1 THEN <<".">> \o Tail(d) ELSE << >>)
             \o <<"e", "-">> \o ZeroPad(IntChars(scale - Len(d) + 1), 2)
    ELSE IntChars(num \div Pow10(scale)) \o <<".">>
             \o (IF scale = 0 THEN <<"0">> ELSE ZeroPad(IntChars(num % Pow10(scale)), scale))

\* str(v) of a parameter value
StrOf(v) ==
    CASE v.t = "bool" -> IF v.b THEN <<"T", "r", "u", "e">> ELSE <<"F", "a", "l", "s", "e">>
      [] v.t = "int" -> IntChars(v.n)
      [] v.t = "float" -> FloatChars(v.num, v.scale)
      [] v.t = "str" -> v.s

\* the characters urllib.parse.quote_plus leaves as they are
Unreserved ==
    {"_", ".", "-", "~"} \cup DecimalChars
        \cup {UpperLetters[i] : i \in 1..26} \cup {LowerLetters[i] : i \in 1..26}

RECURSIVE PercentBytes(_)
PercentBytes(bytes) ==
    IF bytes = << >> THEN << >>
    ELSE <<"%">> \o HexByte(Head(bytes)) \o PercentBytes(Tail(bytes))

\* urllib.parse.quote_plus
RECURSIVE quote_plus(_)
quote_plus(s) ==
    LET QuoteChar(c) ==
            IF c \in Unreserved THEN <<c>>
            ELSE IF c = " " THEN <<"+">>
            ELSE PercentBytes(Utf8(c))
    IN IF s = << >> THEN << >> ELSE QuoteChar(Head(s)) \o quote_plus(Tail(s))

\* urlencode of the items of params, in their order
RECURSIVE urlencode(_)
urlencode(d) ==
    IF d = << >> THEN << >>
    ELSE quote_plus(d[1][1]) \o <<"=">> \o quote_plus(StrOf(d[1][2]))
             \o (IF Len(d) > 1 THEN <<"&">> \o urlencode(Tail(d)) ELSE << >>)

Letters == {UpperLetters[i] : i \in 1..26} \cup {LowerLetters[i] : i \in 1..26}

\* the index of the first character of u that is in S, Len(u) + 1 if none is
FirstIn(u, S) ==
    IF \E i \in 1..Len(u) : u[i] \in S
    THEN CHOOSE i \in 1..Len(u) : u[i] \in S /\ \A j \in 1..(i - 1) : u[j] \notin S
    ELSE Len(u) + 1

\* the index of the last character of u that is in S, 0 if none is
LastIn(u, S) ==
    IF \E i \in 1..Len(u) : u[i] \in S
    THEN CHOOSE i \in 1..Len(u) : u[i] \in S /\ \A j \in (i + 1)..Len(u) : u[j] \notin S
    ELSE 0

From(u, i) == SubSeq(u, i, Len(u))
Upto(u, i) == SubSeq(u, 1, IF i > Len(u) THEN Len(u) ELSE i)

\* urllib3's parse_url: the length of the leading "scheme:" of u, 0 if it
\* has none (a letter, then letters, digits, "+" or "-", then ":")
SchemeLen(u) ==
    IF /\ FirstIn(u, {":"}) \in 2..Len(u)
       /\ u[1] \in Letters
       /\ \A j \in 2..(FirstIn(u, {":"}) - 1) : u[j] \in Letters \cup DecimalChars \cup {"+", "-"}
    THEN FirstIn(u, {":"})
    ELSE 0

\* what follows the scheme; a URL without scheme that does not begin with
\* "/" is read as "//" followed by it
AfterScheme(u) ==
    IF SchemeLen(u) > 0 THEN From(u, SchemeLen(u) + 1)
    ELSE IF u # << >> /\ u[1] = "/" THEN u
    ELSE <<"/", "/">> \o u

\* the authority of a URL: of what follows the scheme, the text after "//",
\* up to the first "/", "\", "?" or "#"; empty if there is no "//"
Authority(u) ==
    LET AuthorityOf(rest) ==
            IF StartsWith(rest, <<"/", "/">>)
            THEN Upto(From(rest, 3), FirstIn(From(rest, 3), {"/", "\\", "?", "#"}) - 1)
            ELSE << >>
    IN AuthorityOf(AfterScheme(u))

\* path, query and fragment: what follows the authority
AfterAuthority(u) ==
    LET AfterAuthorityOf(rest) ==
            IF StartsWith(rest, <<"/", "/">>)
            THEN From(From(rest, 3), FirstIn(From(rest, 3), {"/", "\\", "?", "#"}))
            ELSE rest
    IN AfterAuthorityOf(AfterScheme(u))

\* the user information of an authority (what precedes its last "@"), and
\* its host and port
UserInfo(authority) == Upto(authority, LastIn(authority, {"@"}) - 1)
HostPort(authority) == From(authority, LastIn(authority, {"@"}) + 1)

\* the host of "host:port": an address in brackets, or the characters
\* before the first ":"
HostOf(hp) ==
    IF hp # << >> /\ hp[1] = "["
    THEN Upto(hp, FirstIn(hp, {"]"}))
    ELSE Upto(hp, FirstIn(hp, {":"}) - 1)

\* what follows the host; the "$" of urllib3's pattern lets one final line
\* feed go
AfterHost(hp) ==
    IF Len(hp) > Len(HostOf(hp)) /\ hp[Len(hp)] = "\n"
    THEN SubSeq(hp, Len(HostOf(hp)) + 1, Len(hp) - 1)
    ELSE From(hp, Len(HostOf(hp)) + 1)

\* the digits of the port of "host:port", empty if it has none
PortOf(hp) == IF AfterHost(hp) = << >> THEN << >> ELSE Tail(AfterHost(hp))

HexChars == DecimalChars \cup {"a", "b", "c", "d", "e", "f", "A", "B", "C", "D", "E", "F"}

\* s holds "%" and two hexadecimal digits at i
IsEscapeAt(s, i) ==
    /\ s[i] = "%" /\ i + 2 <= Len(s)
    /\ s[i + 1] \in HexChars /\ s[i + 2] \in HexChars

\* s.split(ch)
RECURSIVE SplitOn(_, _)
SplitOn(s, ch) ==
    IF FirstIn(s, {ch}) > Len(s) THEN <<s>>
    ELSE <<Upto(s, FirstIn(s, {ch}) - 1)>> \o SplitOn(From(s, FirstIn(s, {ch}) + 1), ch)

\* ch.join(parts)
RECURSIVE Join(_, _)
Join(parts, ch) ==
    IF parts = << >> THEN << >>
    ELSE IF Len(parts) = 1 THEN parts[1]
    ELSE parts[1] \o <<ch>> \o Join(Tail(parts), ch)

\* urllib3's IPV4_PAT: four groups of one to three digits
IsIPv4(s) ==
    /\ Len(SplitOn(s, ".")) = 4
    /\ \A i \in 1..4 : Len(SplitOn(s, ".")[i]) \in 1..3 /\ AllDecimal(SplitOn(s, ".")[i])

\* ipaddress.IPv4Address: four numbers up to 255 without leading zeros
IsIPv4Address(s) ==
    /\ IsIPv4(s)
    /\ \A i \in 1..4 :
           /\ DecimalOf(SplitOn(s, ".")[i]) <= 255
           /\ Len(SplitOn(s, ".")[i]) > 1 => SplitOn(s, ".")[i][1] # "0"

\* urllib3's IPV6_PAT, and the address ipaddress.IPv6Address accepts, which
\* differ by the IPv4 address they allow (strict): eight 16-bit units, or at
\* most seven around the first "::".  A group is one to four hexadecimal
\* digits (HEX_PAT), but the last may be an IPv4 address where its side
\* allows one, and stands for two units.
IsIPv6(s, strict) ==
    LET IsHex16(g) == Len(g) \in 1..4 /\ \A i \in 1..Len(g) : g[i] \in HexChars
        GroupsOf(side) == IF side = << >> THEN << >> ELSE SplitOn(side, ":")
        GroupsOk(gs, v4) ==
            \A i \in 1..Len(gs) :
                \/ IsHex16(gs[i])
                \/ v4 /\ i = Len(gs)
                      /\ (IF strict THEN IsIPv4Address(gs[i]) ELSE IsIPv4(gs[i]))
        Units(gs) ==
            Len(gs) + (IF gs # << >> /\ Contains(gs[Len(gs)], <<".">>) THEN 1 ELSE 0)
        DoubleColon(side) ==
            IF \E i \in 1..(Len(side) - 1) : side[i] = ":" /\ side[i + 1] = ":"
            THEN CHOOSE i \in 1..(Len(side) - 1) :
                     /\ side[i] = ":" /\ side[i + 1] = ":"
                     /\ \A j \in 1..(i - 1) : ~(side[j] = ":" /\ side[j + 1] = ":")
            ELSE 0
    IN IF DoubleColon(s) = 0
       THEN GroupsOk(GroupsOf(s), TRUE) /\ Units(GroupsOf(s)) = 8
       ELSE /\ GroupsOk(GroupsOf(Upto(s, DoubleColon(s) - 1)), FALSE)
            /\ GroupsOk(GroupsOf(From(s, DoubleColon(s) + 2)), TRUE)
            /\ Units(GroupsOf(Upto(s, DoubleColon(s) - 1)))
                   + Units(GroupsOf(From(s, DoubleColon(s) + 2))) <= 7

\* urllib3's IPV6_ADDRZ_PAT: "[", an IPv6 address, perhaps a zone, "]"; what
\* follows the "%" of a zone (ZONE_ID_PAT) is one or more characters, each
\* unreserved or part of an escape
IsAddrZ(host) ==
    LET IsZoneBody(z) ==
            /\ z # << >>
            /\ \A i \in 1..Len(z) : z[i] \in Unreserved \/ IsEscapeAt(z, i)
    IN /\ Len(host) >= 2 /\ host[1] = "[" /\ host[Len(host)] = "]"
       /\ IsIPv6(Upto(SubSeq(host, 2, Len(host) - 1),
                      FirstIn(SubSeq(host, 2, Len(host) - 1), {"%"}) - 1), FALSE)
       /\ FirstIn(host, {"%"}) <= Len(host) =>
              IsZoneBody(SubSeq(host, FirstIn(host, {"%"}) + 1, Len(host) - 1))

\* "host:port" has the form urllib3 accepts: a registered name (REG_NAME_PAT,
\* for a host that holds no ":") or an address in brackets, then nothing or
\* ":" and a port of digits that is at most 65535
HostPortMatches(hp) ==
    LET IsRegName(host) ==
            \A i \in 1..Len(host) :
                host[i] \notin {"[", "]"} /\ (host[i] = "%" => IsEscapeAt(host, i))
    IN /\ IF hp # << >> /\ hp[1] = "[" THEN IsAddrZ(HostOf(hp)) ELSE IsRegName(HostOf(hp))
       /\ AfterHost(hp) # << >> =>
              /\ AfterHost(hp)[1] = ":"
              /\ AllDecimal(PortOf(hp))
              /\ DecimalOf(PortOf(hp)) <= 65535

\* urllib3 normalizes the URLs of these schemes, and those without scheme
Normalizable(u) ==
    lower(Upto(u, SchemeLen(u))) \in {<< >>, <<"h", "t", "t", "p", ":">>,
                                      <<"h", "t", "t", "p", "s", ":">>}

Host(u) == HostOf(HostPort(Authority(u)))

IsAscii(s) == \A i \in 1..Len(s) : CodePoint(s[i]) < 128

\* parse_url raises LocationParseError: the authority has not the form it
\* accepts, or _idna_encode raises for a label of the host, no character of
\* this model beyond ASCII being allowed in an IDNA label
ParseFails(u) ==
    LET IdnaFails ==
            /\ Normalizable(u) /\ Host(u) # << >> /\ Host(u)[1] # "["
            /\ ~IsIPv4(IF Host(u)[Len(Host(u))] = "\n" THEN Upto(Host(u), Len(Host(u)) - 1)
                       ELSE Host(u))
            /\ ~IsAscii(Host(u))
    IN /\ Authority(u) # << >>
       /\ ~HostPortMatches(HostPort(Authority(u))) \/ IdnaFails

\* the parts of what follows the authority
PathOf(rest) == Upto(rest, FirstIn(rest, {"?", "#"}) - 1)
QueryOf(rest) ==
    IF FirstIn(rest, {"?", "#"}) <= Len(rest) /\ rest[FirstIn(rest, {"?", "#"})] = "?"
    THEN Upto(From(rest, FirstIn(rest, {"?"}) + 1),
              FirstIn(From(rest, FirstIn(rest, {"?"}) + 1), {"#"}) - 1)
    ELSE << >>
FragmentOf(rest) == From(rest, FirstIn(rest, {"#"}) + 1)

\* urllib3's character classes
UserinfoChars ==
    Unreserved \cup {"!", "$", "&", "'", "(", ")", "*", "+", ",", ";", "="} \cup {":"}
PathChars == UserinfoChars \cup {"@", "/"}
QueryChars == PathChars \cup {"?"}

\* _encode_invalid_chars from the i-th character on: the digits of an
\* escape in upper case, "%" kept if each one of the component begins an
\* escape, any other character that is not allowed escaped
RECURSIVE EncodeFrom(_, _, _)
EncodeFrom(s, i, allowed) ==
    IF i > Len(s) THEN << >>
    ELSE (IF s[i] = "%" /\ \A j \in 1..Len(s) : s[j] = "%" => IsEscapeAt(s, j)
          THEN <<"%">>
          ELSE IF s[i] \in allowed
          THEN <<IF (i > 1 /\ IsEscapeAt(s, i - 1)) \/ (i > 2 /\ IsEscapeAt(s, i - 2))
                 THEN UpperChar(s[i]) ELSE s[i]>>
          ELSE PercentBytes(Utf8(s[i])))
             \o EncodeFrom(s, i + 1, allowed)

_encode_invalid_chars(component, allowed_chars) == EncodeFrom(component, 1, allowed_chars)

\* the loop of _remove_path_dot_segments
RECURSIVE DotOutput(_, _)
DotOutput(segments, output) ==
    IF segments = << >> THEN output
    ELSE IF Head(segments) = <<".">> THEN DotOutput(Tail(segments), output)
    ELSE IF Head(segments) # <<".", ".">>
    THEN DotOutput(Tail(segments), Append(output, Head(segments)))
    ELSE IF output # << >>
    THEN DotOutput(Tail(segments), SubSeq(output, 1, Len(output) - 1))
    ELSE DotOutput(Tail(segments), output)

\* _remove_path_dot_segments: the output of its loop, with an empty
\* segment before it and after it where the path calls for one
_remove_path_dot_segments(path) ==
    LET EndsWith(s, suffix) ==
            Len(suffix) <= Len(s) /\ SubSeq(s, Len(s) - Len(suffix) + 1, Len(s)) = suffix
        DotEnds(output) ==
            (IF StartsWith(path, <<"/">>) /\ (output = << >> \/ output[1] # << >>)
             THEN <<<< >>>> ELSE << >>)
                \o output
                \o (IF EndsWith(path, <<"/", ".">>) \/ EndsWith(path, <<"/", ".", ".">>)
                    THEN <<<< >>>> ELSE << >>)
    IN Join(DotEnds(DotOutput(SplitOn(path, "/"), << >>)), "/")

\* _normalize_host of an ASCII host: an address in brackets in lower case
\* with its zone after a single "%", an IPv4 address as it is, a name in
\* lower case
_normalize_host(host) ==
    IF host = << >> THEN host
    ELSE IF host[1] # "[" THEN lower(host)
    ELSE IF FirstIn(host, {"%"}) > Len(host) THEN lower(host)
    ELSE lower(Upto(host, FirstIn(host, {"%"}) - 1))
             \o <<"%">>
             \o _encode_invalid_chars(
                    IF /\ StartsWith(From(host, FirstIn(host, {"%"})), <<"%", "2", "5">>)
                       /\ Len(host) - FirstIn(host, {"%"}) > 3
                    THEN SubSeq(host, FirstIn(host, {"%"}) + 3, Len(host) - 1)
                    ELSE SubSeq(host, FirstIn(host, {"%"}) + 1, Len(host) - 1),
                    Unreserved)
             \o <<"]">>

\* the netloc requests rebuilds: user information, host, port as a number
\* (none when it is 0).  The IDNA encoding requests gives a host beyond
\* ASCII that urllib3 did not normalize is outside this model: such a host
\* has no value here.
Netloc(u) ==
    LET PreparedHost ==
            IF Normalizable(u) THEN _normalize_host(Host(u))
            ELSE IF IsAscii(Host(u)) THEN Host(u)
            ELSE CHOOSE h \in {} : TRUE
    IN (IF UserInfo(Authority(u)) = << >> THEN << >>
        ELSE (IF Normalizable(u)
              THEN _encode_invalid_chars(UserInfo(Authority(u)), UserinfoChars)
              ELSE UserInfo(Authority(u))) \o <<"@">>)
           \o PreparedHost
           \o (IF DecimalOf(PortOf(HostPort(Authority(u)))) # 0
               THEN <<":">> \o IntChars(DecimalOf(PortOf(HostPort(Authority(u)))))
               ELSE << >>)

\* the query of the prepared URL: that of the URL, then the encoded params
JoinQuery(query, enc) ==
    IF enc = << >> THEN query
    ELSE IF query = << >> THEN enc
    ELSE query \o <<"&">> \o enc

\* the number a pair of hexadecimal digits stands for
HexValue(c) ==
    IF c \in DecimalChars THEN DigitValue(c)
    ELSE CHOOSE n \in 10..15 : HexDigits[n + 1] = UpperChar(c)

\* the characters requote_uri leaves as they are, besides "%"
RequoteSafe ==
    Unreserved \cup {"!", "#", "$", "&", "'", "(", ")", "*", "+", ",", "/", ":", ";",
                     "=", "?", "@", "[", "]", "~"}

\* quote(unquote_unreserved(s), safe_with_percent) from the i-th character
\* on: an escape "%hh" that stands for an unreserved character gives way to it
RECURSIVE RequoteFrom(_, _)
RequoteFrom(s, i) ==
    LET EscapesUnreserved ==
            /\ IsEscapeAt(s, i)
            /\ 16 * HexValue(s[i + 1]) + HexValue(s[i + 2]) \in 32..126
            /\ AsciiPrintable[16 * HexValue(s[i + 1]) + HexValue(s[i + 2]) - 31] \in Unreserved
    IN IF i > Len(s) THEN << >>
       ELSE IF EscapesUnreserved
       THEN <<AsciiPrintable[16 * HexValue(s[i + 1]) + HexValue(s[i + 2]) - 31]>>
                \o RequoteFrom(s, i + 3)
       ELSE (IF s[i] \in RequoteSafe \cup {"%"} THEN <<s[i]>> ELSE PercentBytes(Utf8(s[i])))
                \o RequoteFrom(s, i + 1)

\* quote(s, safe_without_percent)
RECURSIVE QuoteAll(_)
QuoteAll(s) ==
    IF s = << >> THEN << >>
    ELSE (IF Head(s) \in RequoteSafe THEN <<Head(s)>> ELSE PercentBytes(Utf8(Head(s))))
             \o QuoteAll(Tail(s))

\* requests.utils.requote_uri; unquote_unreserved raises InvalidURL where a
\* "%" is followed by two alphanumeric characters (str.isalnum()) that are
\* no hexadecimal number, and the URI is then quoted as it is
requote_uri(uri) ==
    LET IsAlnum(c) == c \in Letters \cup DecimalChars \cup {SuperTwo}
        BadEscape ==
            \E i \in 1..(Len(uri) - 2) :
                /\ uri[i] = "%" /\ IsAlnum(uri[i + 1]) /\ IsAlnum(uri[i + 2])
                /\ ~IsEscapeAt(uri, i)
    IN IF BadEscape THEN QuoteAll(uri) ELSE RequoteFrom(uri, 1)

\* the URL of the prepared request, which is the url of its response, for
\* the URL u without its leading whitespace and the encoded params: the
\* path without dot segments and escaped where urllib3 normalizes, "/" for
\* none, and beginning with "/"; query and fragment as parse_url gives
\* them, "?" and "#" coming (urlunparse) with those that are not empty
PreparedOf(u, enc) ==
    LET SlashFirst(path) ==
            IF path = << >> \/ path[1] # "/" THEN <<"/">> \o path ELSE path
        PreparedPath ==
            SlashFirst(IF Normalizable(u)
                       THEN _encode_invalid_chars(
                                _remove_path_dot_segments(PathOf(AfterAuthority(u))),
                                PathChars)
                       ELSE PathOf(AfterAuthority(u)))
        PreparedPart(part) ==
            IF Normalizable(u) THEN _encode_invalid_chars(part, QueryChars) ELSE part
        With(mark, part) == IF part = << >> THEN << >> ELSE <<mark>> \o part
    IN requote_uri(lower(Upto(u, SchemeLen(u)))
                       \o <<"/", "/">> \o Netloc(u)
                       \o PreparedPath
                       \o With("?", JoinQuery(PreparedPart(QueryOf(AfterAuthority(u))), enc))
                       \o With("#", PreparedPart(FragmentOf(AfterAuthority(u)))))

PreparedUrl(url, params) ==
    PreparedOf(lstrip(url, Whitespace), IF params.some THEN urlencode(params.v) ELSE << >>)

\* _check_bracketed_host of urllib.parse: the ValueError for the host the
\* brackets of a netloc hold.  An IPvFuture address is "v", hexadecimal
\* digits, ".", and more; ipaddress.IPv6Address takes an IPv6 address,
\* perhaps with "%" and a scope that is not empty and holds no "%"
BracketError(b) ==
    LET IsIPvFuture ==
            /\ FirstIn(b, {"."}) \in 3..(Len(b) - 1)
            /\ \A j \in 2..(FirstIn(b, {"."}) - 1) : b[j] \in HexChars
        IsIPv6Address ==
            /\ IsIPv6(Upto(b, FirstIn(b, {"%"}) - 1), TRUE)
            /\ FirstIn(b, {"%"}) <= Len(b) =>
                   /\ FirstIn(b, {"%"}) < Len(b)
                   /\ ~Contains(From(b, FirstIn(b, {"%"}) + 1), <<"%">>)
    IN IF b # << >> /\ b[1] = "v"
       THEN IF IsIPvFuture THEN None ELSE Some(<<"IPvFuture address is invalid">>)
       ELSE IF IsIPv4Address(b) THEN Some(<<"An IPv4 address cannot be in brackets">>)
       ELSE IF IsIPv6Address THEN None
       ELSE Some(repr(b) \o <<" does not appear to be an IPv4 or IPv6 address">>)

\* get_auth_from_url(url), by which requests looks for credentials in the
\* URL of the request it prepares, raises the ValueError of urlsplit.
\* urlsplit drops tabs, carriage returns and line feeds, takes the leading
\* "scheme:" off, finds the netloc after "//", up to the first "/", "?" or
\* "#", and checks its brackets.  The check is _check_bracketed_netloc of the
\* CPython releases that allow brackets around the whole host only (3.13.13
\* among them): of what follows the last "@", nothing may precede "[", and
\* what follows "]" is empty or begins with ":"; the host checked is what the
\* brackets hold or, where only the user information has brackets, what
\* precedes the first ":".  Releases from 3.11.4 on that are older than this
\* check look at what the first "[" and the first "]" after it hold, wherever
\* they are, and differ on netlocs with brackets elsewhere than around the
\* host.
UrlSplitError(url) ==
    LET SplitSchemeLen(v) ==
            IF /\ FirstIn(v, {":"}) \in 2..Len(v)
               /\ v[1] \in Letters
               /\ \A j \in 1..(FirstIn(v, {":"}) - 1) :
                      v[j] \in Letters \cup DecimalChars \cup {"+", "-", "."}
            THEN FirstIn(v, {":"})
            ELSE 0
        NetlocOf(rest) ==
            IF StartsWith(rest, <<"/", "/">>)
            THEN Upto(From(rest, 3), FirstIn(From(rest, 3), {"/", "?", "#"}) - 1)
            ELSE << >>
        SplitNetloc(v) == NetlocOf(From(v, SplitSchemeLen(v) + 1))
        Misplaced(hostname_and_port) ==
            /\ Contains(hostname_and_port, <<"[">>)
            /\ \/ hostname_and_port[1] # "["
               \/ /\ FirstIn(hostname_and_port, {"]"}) < Len(hostname_and_port)
                  /\ hostname_and_port[FirstIn(hostname_and_port, {"]"}) + 1] # ":"
        Hostname(hostname_and_port) ==
            IF Contains(hostname_and_port, <<"[">>)
            THEN SubSeq(hostname_and_port, 2, FirstIn(hostname_and_port, {"]"}) - 1)
            ELSE Upto(hostname_and_port, FirstIn(hostname_and_port, {":"}) - 1)
        HostPortError(hostname_and_port) ==
            IF Misplaced(hostname_and_port) THEN Some(<<"Invalid IPv6 URL">>)
            ELSE BracketError(Hostname(hostname_and_port))
        NetlocError(netloc) ==
            IF Contains(netloc, <<"[">>) # Contains(netloc, <<"]">>)
            THEN Some(<<"Invalid IPv6 URL">>)
            ELSE IF ~Contains(netloc, <<"[">>) THEN None
            ELSE HostPortError(HostPort(netloc))
    IN NetlocError(SplitNetloc(remove(remove(remove(url, "\t"), "\r"), "\n")))

\* session.get() of a URL requests cannot send raises before it uses the
\* network: InvalidSchema, InvalidURL or MissingSchema, all RequestException,
\* or the ValueError of urlsplit, which is none;
\* u is the URL without its leading whitespace
PreSendErrorOf(u, prepared) ==
    LET NoAdapter(e, url) ==
            IF e.some THEN Some([cls |-> "ValueError", str |-> e.v])
            ELSE IF lower(Upto(u, SchemeLen(u))) \notin {<<"h", "t", "t", "p", ":">>,
                                                         <<"h", "t", "t", "p", "s", ":">>}
            THEN Some([cls |-> "InvalidSchema",
                       str |-> <<"No connection adapters were found for ">> \o repr(url)])
            ELSE None
    IN
    IF Contains(u, <<":">>) /\ ~StartsWith(lower(u), <<"h", "t", "t", "p">>)
    THEN NoAdapter(UrlSplitError(u), u)
    ELSE IF ParseFails(u)
    THEN Some([cls |-> "InvalidURL", str |-> <<"Failed to parse: ">> \o u])
    ELSE IF SchemeLen(u) = 0
    THEN Some([cls |-> "MissingSchema",
               str |-> <<"Invalid URL ">> \o repr(u)
                           \o <<": No scheme supplied. Perhaps you meant https://">>
                           \o u \o <<"?">>])
    ELSE IF Host(u) = << >>
    THEN Some([cls |-> "InvalidURL",
               str |-> <<"Invalid URL ">> \o repr(u) \o <<": No host supplied">>])
    ELSE IF Host(u)[1] \in {"*", "."}
    THEN Some([cls |-> "InvalidURL", str |-> <<"URL has an invalid label.">>])
    ELSE NoAdapter(UrlSplitError(prepared), prepared)

PreSendError(url, params) == PreSendErrorOf(lstrip(url, Whitespace), PreparedUrl(url, params))

\* what becomes of one GET: the failure e to send it, or the network's answer
OutcomeOf(answer, e) ==
    IF e.some THEN [kind |-> "unsent", cls |-> e.v.cls, cause |-> e.v.str] ELSE answer

Outcome(answer, url, params) == OutcomeOf(answer, PreSendError(url, params))

\* Response.raise_for_status() raises HTTPError for these statuses, and
\* Response.ok / bool(response) is its negation.
RaisesForStatus(status) == 400 <= status /\ status < 600

\* the HTTPError of raise_for_status() for a response whose url is url
HTTPError(response, url) ==
    [cls |-> "HTTPError", response |-> Some(response),
     str |-> <<ToString(response.status),
               IF response.status < 500 THEN " Client Error: " ELSE " Server Error: ">>
                 \o response.reason \o <<" for url: ">> \o url]

\* self.session.get(...) followed by response.raise_for_status(): a response,
\* or the exception raised, a RequestException unless it is the ValueError
\* of a URL urlsplit rejects.
SendOf(o, prepared) ==
    IF o.kind # "response"
    THEN [failed |-> TRUE, e |-> [cls |-> o.cls, response |-> None, str |-> o.cause]]
    ELSE IF RaisesForStatus(o.status)
    THEN [failed |-> TRUE, e |-> HTTPError(o, prepared)]
    ELSE [failed |-> FALSE, response |-> o]

Send(answer, url, params) == SendOf(Outcome(answer, url, params), PreparedUrl(url, params))

\* the request as the session receives it
Request(svc, params) == [url |-> RequestUrl(svc), params |-> params, timeout |-> svc.timeout]

\* ExampleService.ping; the truth value of e.response: None is false, a
\* Response is response.ok
ping(svc, answer) ==
    LET Truthy(opt) == opt.some /\ ~RaisesForStatus(opt.v.status)
        Result(url, r) ==
            IF r.failed /\ r.e.cls = "ValueError" THEN Raise("ValueError", r.e.str)
            ELSE IF ~r.failed
            THEN Return([status |-> Some(r.response.status),
                         headers |-> r.response.headers,
                         success |-> TRUE,
                         message |-> <<"Successfully connected to ">> \o url])
            ELSE Return([status |-> IF r.e.response.some THEN Some(r.e.response.v.status)
                                                        ELSE None,
                         headers |-> IF Truthy(r.e.response) THEN r.e.response.v.headers
                                                             ELSE EmptyDict,
                         success |-> FALSE,
                         message |-> <<"Connection to ">> \o url \o <<" failed: ">>
                                         \o r.e.str])
    IN Result(RequestUrl(svc), Send(answer, RequestUrl(svc), None))

\* response.json(): the decoded body, or the decoder's error, which is a
\* RequestException or a plain ValueError depending on the requests release.
Decode(text) == [args |-> EmptyDict, url |-> "u", source |-> text]

json(response) ==
    IF response.body.json THEN Return(Decode(response.body.text))
    ELSE Raise(IF response.body.errorIsRequestException THEN "RequestException"
                                                         ELSE "ValueError",
               <<"Expecting value: line 1 column 1 (char 0)">>)

\* ExampleService.get_with_params
get_with_params(svc, params, answer) ==
    LET wrap(url, cause) ==
            Raise("RequestException",
                  <<"GET request to ">> \o url \o <<" failed: ">> \o cause)
        Decoded(url, j) ==
            IF j.raised /\ j.exc = "RequestException" THEN wrap(url, j.msg) ELSE j
        Result(url, r) ==
            IF r.failed /\ r.e.cls = "ValueError" THEN Raise("ValueError", r.e.str)
            ELSE IF r.failed THEN wrap(url, r.e.str)
            ELSE Decoded(url, json(r.response))
    IN Result(RequestUrl(svc), Send(answer, RequestUrl(svc), params))

\* ExampleService.close
close(svc) ==
    IF svc.session # "none"
    THEN [svc EXCEPT !.session = "closed", !.closes = @ + 1]
    ELSE svc

\* ExampleService.__enter__ / __exit__
__enter__(svc) == svc
__exit__(svc) == close(svc)

\* ------------------------------------------------------------------ logging

ValidLevels ==
    {<<"T", "R", "A", "C", "E">>, <<"D", "E", "B", "U", "G">>, <<"I", "N", "F", "O">>,
     <<"S", "U", "C", "C", "E", "S", "S">>, <<"W", "A", "R", "N", "I", "N", "G">>,
     <<"E", "R", "R", "O", "R">>, <<"C", "R", "I", "T", "I", "C", "A", "L">>}

\* What setup_logger can find in the working directory: "ok" (logs/ can be
\* made or is there, logs/app.log can be opened), "logs_is_file" (a regular
\* file named logs), "cwd_readonly" (no logs/ and no right to make it),
\* "log_unwritable" (logs/ is there, logs/app.log cannot be opened).
FileStates == {"ok", "logs_is_file", "cwd_readonly", "log_unwritable"}

\* the absolute path of the working directory
Cwd == <<"/cwd">>

\* the text of OSError(errno, strerror, filename)
OSErrorStr(errno, strerror, filename) ==
    <<"[Errno ", ToString(errno), "] ", strerror, ": ">> \o repr(filename)

\* Path("logs").mkdir(exist_ok=True): exist_ok forgives a directory that is
\* there, nothing else
mkdir(fs) ==
    CASE fs = "logs_is_file" ->
             [raised |-> TRUE, exc |-> "FileExistsError",
              msg |-> OSErrorStr(17, "File exists", <<"l", "o", "g", "s">>)]
      [] fs = "cwd_readonly" ->
             [raised |-> TRUE, exc |-> "PermissionError",
              msg |-> OSErrorStr(13, "Permission denied", <<"l", "o", "g", "s">>)]
      [] OTHER -> [raised |-> FALSE, exc |-> "", msg |-> << >>]

\* logger.add(sink, level=level.upper(), ...): a file sink opens its file
\* first (OSError when it cannot), then the level is looked up (ValueError
\* for one loguru does not know), then there is one more sink
add(hs, sink, level, fs) ==
    IF sink # "stderr" /\ fs = "log_unwritable"
    THEN [raised |-> TRUE, exc |-> "PermissionError", handlers |-> hs,
          msg |-> OSErrorStr(13, "Permission denied",
                             Cwd \o <<"/", "l", "o", "g", "s", "/", "a", "p", "p",
                                      ".", "l", "o", "g">>)]
    ELSE IF upper(level) \notin ValidLevels
    THEN [raised |-> TRUE, exc |-> "ValueError", handlers |-> hs,
          msg |-> <<"Level '">> \o upper(level) \o <<"' does not exist">>]
    ELSE [raised |-> FALSE, exc |-> "",
          handlers |-> Append(hs, [sink |-> sink, level |-> upper(level)]),
          msg |-> << >>]

\* the second logger.add of setup_logger, after the outcome a of the first
AddFile(a, level, fs) ==
    IF a.raised THEN a ELSE add(a.handlers, "logs/app.log", level, fs)

\* setup_logger: the logs directory, then the console sink, then the file sink
setup_logger(hs, level, fs) ==
    IF mkdir(fs).raised
    THEN [raised |-> TRUE, exc |-> mkdir(fs).exc, handlers |-> hs, msg |-> mkdir(fs).msg]
    ELSE AddFile(add(hs, "stderr", level, fs), level, fs)

\* config.py defines AppSettings and get_settings, and no name "settings":
\* "from .config import settings" raises ImportError
ConfigExportsSettings == FALSE

\* get_logger: sets the logger up if it has no sink, and lets the error of
\* that setup through
get_logger(hs, s, fs) ==
    IF hs # << >> THEN [raised |-> FALSE, exc |-> "", handlers |-> hs, msg |-> << >>]
    ELSE IF ConfigExportsSettings THEN setup_logger(hs, s.log_level, fs)
    ELSE setup_logger(hs, <<"I", "N", "F", "O">>, fs)

\* ------------------------------------------------------------ CLI handlers

Json(doc) == [fmt |-> "json", doc |-> doc]
Text(text) == [fmt |-> "text", text |-> text]

\* handle_ping_command: what it prints and returns
handle_ping_commandZero(svc, answer) == [out |-> Json(ping(svc, answer).value), code |-> 0]
handle_ping_command(svc, answer) ==
    LET r == ping(svc, answer) IN
    IF ~r.raised
    THEN [out |-> Json(r.value), code |-> IF r.value.success THEN 0 ELSE 1]
    ELSE [out |-> Json([success |-> FALSE, error |-> r.msg]), code |-> 1]

\* params if params else None
OptParams(params) == IF params = EmptyDict THEN None ELSE Some(params)

\* handle_get_command: what it prints and returns
handle_get_command(svc, params, answer) ==
    LET r == get_with_params(svc, OptParams(params), answer) IN
    IF ~r.raised
    THEN [out |-> Json(r.value), code |-> 0]
    ELSE [out |-> Json([error |-> r.msg]), code |-> 1]

\* ------------------------------------------------------------------ inputs

\* The --params tokens given to main(): an integer and a boolean one, one
\* without "=", one with an empty key, one with a non-decimal digit.
MainTokens ==
    {<<"a", "=", "1">>, <<"b", "=", "T", "r", "u", "e">>,
     <<"a">>, <<"=", "v">>, <<"a", "=", SuperTwo>>}

\* The characters of the exhaustively enumerated tokens.
ParseAlphabet == {"a", "=", "1", ".", " ", "\t", SuperTwo}

\* The examples of the documentation, and variations of them.
ExampleTokens ==
    {<<"a", "=", "t", "r", "u", "e">>, <<"a", "=", "F", "A", "L", "S", "E">>,
     <<"a", "=", "T", "r", "u", "e">>, <<"a", "=", "t", "r", "u", "e", "1">>,
     <<"a", "=", "4", "2">>, <<"a", "=", "0", "0", "7">>,
     <<"a", "=", "3", ".", "1", "4">>, <<"a", "=", "1", ".", "5", "0">>,
     <<"a", "=", "1", ".", "2", ".", "3">>,
     <<"a", "=", "h", "e", "l", "l", "o">>, <<"a", "=", "b", "=", "c">>,
     <<"a", "=", " ", "4", "2", " ">>, <<"a", " ", "=", " ", "x">>,
     <<"a", "=", "\t", "4", "2", "\n">>, <<"\t", " ", "=", "v">>,
     <<"U+000B", "=", "v">>, <<"a", "=", "U+001C", "1", "U+00A0">>,
     <<"a", "=", "H", "E", "L", "L", "O">>, <<"a", "=", ".", "0", "0", "0", "0", "1">>}

ParseTokens == SeqsUpTo(ParseAlphabet, MaxTokLen) \cup ExampleTokens

ArgvSet ==
    {[command |-> c, params |-> << >>] : c \in {"none", "ping", "get", "bogus", "help"}}
        \cup {[command |-> "get", params |-> ps] : ps \in SeqsUpTo(MainTokens, MaxParams)}

Slashes(k) == [i \in 1..k |-> "/"]

BaseUrls ==
    {b \o Slashes(k) : b \in {<<"h", "t", "t", "p", ":", "/", "/", "x">>, << >>},
                       k \in 0..MaxSlashes}

LogLevels == {<<"I", "N", "F", "O">>, <<"d", "e", "b", "u", "g">>, <<"b", "o", "g", "u", "s">>}

SettingsSet == [api_base_url : BaseUrls, log_level : LogLevels]

\* A body is its text, and whether the text is a JSON document; for one that
\* is not, whether the decoder's error is a RequestException (it is from
\* requests 2.27 on) or a plain ValueError.
JsonBody == [json |-> TRUE, text |-> "{args: {}, url: u}", errorIsRequestException |-> TRUE]
TextBodies == {[json |-> FALSE, text |-> "<html>", errorIsRequestException |-> d] : d \in BOOLEAN}
NoAnswer == [kind |-> "none"]

\* the reason phrase of a status line
Reason(status) ==
    CASE status = 200 -> <<"OK">> [] status = 300 -> <<"Multiple Choices">>
      [] status = 304 -> <<"Not Modified">>
      [] status = 404 -> <<"Not Found">> [] status = 503 -> <<"Service Unavailable">>

\* The bodies a response of this status can carry.  The HTTP layer under
\* requests reads no body for 1xx, 204 and 304; any other status, a 300
\* included (which requests does not follow as a redirect), carries the body
\* the server sent.  On the empty text of a response without body the
\* decoder fails.
BodiesOf(status) ==
    IF status \in 100..199 \cup {204, 304}
    THEN {[json |-> FALSE, text |-> "", errorIsRequestException |-> d] : d \in BOOLEAN}
    ELSE {JsonBody} \cup TextBodies

\* What the network does with one GET: a response, or a transport failure.
Outcomes ==
    UNION {{[kind |-> "response", status |-> st, reason |-> Reason(st),
             headers |-> h, body |-> b] :
               h \in {EmptyDict, ("Content-Type" :> "application/json")},
               b \in BodiesOf(st)} : st \in {200, 300, 304, 404, 503}}
    \cup {[kind |-> "transport", cls |-> "ConnectionError", cause |-> <<"Connection error">>],
          [kind |-> "transport", cls |-> "Timeout", cause |-> <<"Network timeout">>]}

\* ------------------------------------------------------------------- main()

Init ==
    /\ pc = "start"
    /\ argv \in ArgvSet
    /\ settings \in SettingsSet
    /\ files \in FileStates
    /\ handlers = << >>
    /\ loggerCalls = << >>
    /\ service = NoService
    /\ requests = << >>
    /\ result = NoResult
    /\ stdout = << >>
    /\ exitCode = None
    /\ interrupted = FALSE
    /\ net = NoAnswer
    /\ retval = None

Exit(code) == pc' = "exited" /\ exitCode' = Some(code)

\* main() left by a KeyboardInterrupt that none of its handlers caught
Escaped == [some |-> FALSE, raised |-> "KeyboardInterrupt"]

\* parser.parse_args() of a command line argparse rejects: usage on stderr,
\* SystemExit(2), which no handler of main() catches
ArgparseError ==
    /\ pc = "start" /\ argv.command = "bogus"
    /\ Exit(2)
    /\ UNCHANGED <<argv, settings, files, handlers, loggerCalls, service, requests,
                   result, stdout, interrupted, net, retval>>

\* parser.parse_args() of -h writes the help on stdout
ArgparseHelp ==
    /\ pc = "start" /\ argv.command = "help"
    /\ stdout' = Append(stdout, Text(<<"usage">>))
    /\ pc' = "help_printed"
    /\ UNCHANGED <<argv, settings, files, handlers, loggerCalls, service, requests,
                   result, exitCode, interrupted, net, retval>>

\* and then raises SystemExit(0)
ArgparseHelpExit ==
    /\ pc = "help_printed"
    /\ Exit(0)
    /\ UNCHANGED <<argv, settings, files, handlers, loggerCalls, service, requests,
                   result, stdout, interrupted, net, retval>>

\* parser.parse_args() of an accepted command line
ParseArgs ==
    /\ pc = "start" /\ argv.command \in {"none", "ping", "get"}
    /\ pc' = "args"
    /\ UNCHANGED <<argv, settings, files, handlers, loggerCalls, service, requests,
                   result, stdout, exitCode, interrupted, net, retval>>

\* get_settings(); setup_logger(settings.log_level) up to its mkdir, whose
\* OSError the except Exception of main() catches
MakeLogsDir ==
    /\ pc = "args"
    /\ IF mkdir(files).raised
       THEN /\ loggerCalls' = Append(loggerCalls, [op |-> "setup_logger",
                               level |-> settings.log_level, raised |-> TRUE])
            /\ result' = Raise(mkdir(files).exc, mkdir(files).msg)
            /\ pc' = "failing"
       ELSE /\ pc' = "logsdir"
            /\ UNCHANGED <<loggerCalls, result>>
    /\ UNCHANGED <<argv, settings, files, handlers, service, requests, stdout,
                   exitCode, interrupted, net, retval>>

\* the first logger.add of setup_logger, whose ValueError the except
\* Exception of main() catches
AddConsoleSink ==
    /\ pc = "logsdir"
    /\ \E a \in {add(handlers, "stderr", settings.log_level, files)} :
           /\ handlers' = a.handlers
           /\ IF a.raised
              THEN /\ loggerCalls' = Append(loggerCalls, [op |-> "setup_logger",
                                      level |-> settings.log_level, raised |-> TRUE])
                   /\ result' = Raise(a.exc, a.msg)
                   /\ pc' = "failing"
              ELSE /\ pc' = "console"
                   /\ UNCHANGED <<loggerCalls, result>>
    /\ UNCHANGED <<argv, settings, files, service, requests, stdout, exitCode,
                   interrupted, net, retval>>

\* the second logger.add of setup_logger, whose OSError the except Exception
\* of main() catches with the console sink in place, and its return
AddFileSink ==
    /\ pc = "console"
    /\ \E a \in {add(handlers, "logs/app.log", settings.log_level, files)} :
           /\ handlers' = a.handlers
           /\ loggerCalls' = Append(loggerCalls, [op |-> "setup_logger",
                                    level |-> settings.log_level, raised |-> a.raised])
           /\ IF a.raised
              THEN result' = Raise(a.exc, a.msg) /\ pc' = "failing"
              ELSE pc' = "file" /\ UNCHANGED result
    /\ UNCHANGED <<argv, settings, files, service, requests, stdout, exitCode,
                   interrupted, net, retval>>

\* logger = get_logger(): the logger has its sinks by now
GetLogger ==
    /\ pc = "file"
    /\ \E g \in {get_logger(handlers, settings, files)} :
           /\ handlers' = g.handlers
           /\ loggerCalls' = Append(loggerCalls, [op |-> "get_logger", level |-> << >>,
                                                  raised |-> g.raised])
    /\ pc' = "dispatch"
    /\ UNCHANGED <<argv, settings, files, service, requests, result, stdout, exitCode,
                   interrupted, net, retval>>

\* except Exception as e: print(f"Unexpected error: {e}")
PrintUnexpected ==
    /\ pc = "failing"
    /\ stdout' = Append(stdout, Text(<<"Unexpected error: ">> \o result.msg))
    /\ pc' = "failed"
    /\ UNCHANGED <<argv, settings, files, handlers, loggerCalls, service, requests,
                   result, exitCode, interrupted, net, retval>>

\* return 1 of except Exception
ReturnFailed ==
    /\ pc = "failed"
    /\ Exit(1)
    /\ UNCHANGED <<argv, settings, files, handlers, loggerCalls, service, requests,
                   result, stdout, interrupted, net, retval>>

\* if not args.command: parser.print_help()
NoCommand ==
    /\ pc = "dispatch" /\ argv.command = "none"
    /\ stdout' = Append(stdout, Text(<<"usage">>))
    /\ pc' = "helped"
    /\ UNCHANGED <<argv, settings, files, handlers, loggerCalls, service, requests,
                   result, exitCode, interrupted, net, retval>>

\* return 1 after print_help()
NoCommandReturn ==
    /\ pc = "helped"
    /\ Exit(1)
    /\ UNCHANGED <<argv, settings, files, handlers, loggerCalls, service, requests,
                   result, stdout, interrupted, net, retval>>

\* with ExampleService(settings.api_base_url) as service:
EnterService ==
    /\ pc = "dispatch" /\ argv.command \in {"ping", "get"}
    /\ service' = __enter__(ExampleService(settings.api_base_url))
    /\ pc' = IF argv.command = "ping" THEN "ready" ELSE "parsing"
    /\ UNCHANGED <<argv, settings, files, handlers, loggerCalls, requests, result,
                   stdout, exitCode, interrupted, net, retval>>

\* params = parse_params(args.params or []), which returns or raises
ParseParams ==
    /\ pc = "parsing"
    /\ result' = parse_params(argv.params)
    /\ pc' = IF parse_params(argv.params).raised THEN "caught" ELSE "ready"
    /\ UNCHANGED <<argv, settings, files, handlers, loggerCalls, service, requests,
                   stdout, exitCode, interrupted, net, retval>>

\* the params given to the service: none for ping, those parsed for get
CallParams ==
    IF argv.command = "ping" THEN None ELSE OptParams(parse_params(argv.params).value)

\* result = service.ping() / service.get_with_params(...) inside its handler
CallService(answer) ==
    /\ pc = "ready"
    /\ requests' = Append(requests, Request(service, CallParams))
    /\ net' = Outcome(answer, RequestUrl(service), CallParams)
    /\ result' = IF argv.command = "ping" THEN ping(service, answer)
                 ELSE get_with_params(service, CallParams, answer)
    /\ pc' = "called"
    /\ UNCHANGED <<argv, settings, files, handlers, loggerCalls, service, stdout,
                   exitCode, interrupted, retval>>

\* what the handler of the command prints and returns after its call
Handled ==
    IF argv.command = "ping" THEN handle_ping_command(service, net)
    ELSE handle_get_command(service, parse_params(argv.params).value, net)

\* the rest of handle_ping_command / handle_get_command: print(json.dumps(...))
\* and the return statement
PrintResult ==
    /\ pc = "called"
    /\ \E h \in {Handled} :
           /\ stdout' = Append(stdout, h.out)
           /\ retval' = Some(h.code)
    /\ pc' = "returning"
    /\ UNCHANGED <<argv, settings, files, handlers, loggerCalls, service, requests,
                   result, exitCode, interrupted, net>>

\* except ValueError as e: print(f"Error: {e}"); return 1
PrintParamError ==
    /\ pc = "caught"
    /\ stdout' = Append(stdout, Text(<<"Error: ">> \o result.msg))
    /\ retval' = Some(1)
    /\ pc' = "returning"
    /\ UNCHANGED <<argv, settings, files, handlers, loggerCalls, service, requests,
                   result, exitCode, interrupted, net>>

\* the with statement calls service.__exit__, which runs to its end
ExitScope ==
    /\ pc \in {"returning", "unwinding"}
    /\ service' = __exit__(service)
    /\ pc' = "leaving"
    /\ UNCHANGED <<argv, settings, files, handlers, loggerCalls, requests, result,
                   stdout, exitCode, interrupted, net, retval>>

\* the with statement is left: main() returns the value of the return
\* statement, or the KeyboardInterrupt reaches except KeyboardInterrupt
Leave ==
    /\ pc = "leaving"
    /\ IF interrupted
       THEN pc' = "cancelling" /\ exitCode' = exitCode
       ELSE Exit(retval.v)
    /\ UNCHANGED <<argv, settings, files, handlers, loggerCalls, service, requests,
                   result, stdout, interrupted, net, retval>>

\* KeyboardInterrupt before the with statement, caught by
\* except KeyboardInterrupt
Interrupt ==
    /\ pc \in {"start", "help_printed", "args", "logsdir", "console", "file",
              "dispatch", "helped"}
    /\ interrupted' = TRUE
    /\ pc' = "cancelling"
    /\ UNCHANGED <<argv, settings, files, handlers, loggerCalls, service, requests,
                   result, stdout, exitCode, net, retval>>

\* except KeyboardInterrupt: print("\nOperation cancelled by user")
PrintCancelled ==
    /\ pc = "cancelling"
    /\ stdout' = Append(stdout, Text(<<"\nOperation cancelled by user">>))
    /\ pc' = "cancelled"
    /\ UNCHANGED <<argv, settings, files, handlers, loggerCalls, service, requests,
                   result, exitCode, interrupted, net, retval>>

\* return 130 of except KeyboardInterrupt
ReturnCancelled ==
    /\ pc = "cancelled"
    /\ Exit(130)
    /\ UNCHANGED <<argv, settings, files, handlers, loggerCalls, service, requests,
                   result, stdout, interrupted, net, retval>>

\* KeyboardInterrupt while one of the two except clauses of main() runs,
\* before or after its print: no handler is left to catch it
InterruptInHandler ==
    /\ pc \in {"cancelling", "cancelled", "failing", "failed"}
    /\ interrupted' = TRUE
    /\ pc' = "exited"
    /\ exitCode' = Escaped
    /\ UNCHANGED <<argv, settings, files, handlers, loggerCalls, service, requests,
                   result, stdout, net, retval>>

\* KeyboardInterrupt in the body of the with statement, which no handler of
\* the commands catches: while the parameters are parsed, before the GET is
\* handed to the session (sent = FALSE) or while it is in flight (sent =
\* TRUE), after the call, after the print
InterruptBody(sent) ==
    /\ pc \in {"parsing", "ready", "called", "caught", "returning"}
    /\ sent => pc = "ready"
    /\ requests' = IF sent THEN Append(requests, Request(service, CallParams))
                   ELSE requests
    /\ interrupted' = TRUE
    /\ pc' = "unwinding"
    /\ UNCHANGED <<argv, settings, files, handlers, loggerCalls, service, result,
                   stdout, exitCode, net, retval>>

\* KeyboardInterrupt inside __exit__, before its self.close()
InterruptInExit ==
    /\ pc \in {"returning", "unwinding"}
    /\ interrupted' = TRUE
    /\ pc' = "leaving"
    /\ UNCHANGED <<argv, settings, files, handlers, loggerCalls, service, requests,
                   result, stdout, exitCode, net, retval>>

\* KeyboardInterrupt after __exit__ has returned, before main() has
InterruptLeaving ==
    /\ pc = "leaving" /\ ~interrupted
    /\ interrupted' = TRUE
    /\ UNCHANGED <<pc, argv, settings, files, handlers, loggerCalls, service, requests,
                   result, stdout, exitCode, net, retval>>

Next ==
    \/ ArgparseError
    \/ ArgparseHelp
    \/ ArgparseHelpExit
    \/ ParseArgs
    \/ MakeLogsDir
    \/ AddConsoleSink
    \/ AddFileSink
    \/ GetLogger
    \/ PrintUnexpected
    \/ ReturnFailed
    \/ NoCommand
    \/ NoCommandReturn
    \/ EnterService
    \/ ParseParams
    \/ \E answer \in Outcomes : CallService(answer)
    \/ PrintResult
    \/ PrintParamError
    \/ ExitScope
    \/ Leave
    \/ PrintCancelled
    \/ ReturnCancelled
    \/ Interrupt
    \/ InterruptInHandler
    \/ \E sent \in BOOLEAN : InterruptBody(sent)
    \/ InterruptInExit
    \/ InterruptLeaving

Spec == Init /\ [][Next]_vars

\* ------------------------------------------------- parse_params on its own

InitParse ==
    /\ pc = "parse"
    /\ argv \in {[command |-> "get", params |-> <<t>>] : t \in ParseTokens}
    /\ settings = [api_base_url |-> << >>, log_level |-> <<"I", "N", "F", "O">>]
    /\ files = "ok"
    /\ handlers = << >>
    /\ loggerCalls = << >>
    /\ service = NoService
    /\ requests = << >>
    /\ result = NoResult
    /\ stdout = << >>
    /\ exitCode = None
    /\ interrupted = FALSE
    /\ net = NoAnswer
    /\ retval = None

ApplyParse ==
    /\ pc = "parse"
    /\ result' = parse_params(argv.params)
    /\ pc' = "parsed"
    /\ UNCHANGED <<argv, settings, files, handlers, loggerCalls, service, requests,
                   stdout, exitCode, interrupted, net, retval>>

NextParse == ApplyParse

SpecParse == InitParse /\ [][NextParse]_vars

\* ------------------------------------------------- the logger on its own

InitLogger ==
    /\ pc = "logger"
    /\ argv = [command |-> "none", params |-> << >>]
    /\ settings \in [api_base_url : {<< >>}, log_level : LogLevels]
    /\ files = "ok"
    /\ handlers = << >>
    /\ loggerCalls = << >>
    /\ service = NoService
    /\ requests = << >>
    /\ result = NoResult
    /\ stdout = << >>
    /\ exitCode = None
    /\ interrupted = FALSE
    /\ net = NoAnswer
    /\ retval = None

SetupLoggerCall(level) ==
    /\ pc = "logger" /\ Len(loggerCalls) < MaxLoggerCalls
    /\ LET s == setup_logger(handlers, level, files) IN
       /\ handlers' = s.handlers
       /\ loggerCalls' = Append(loggerCalls, [op |-> "setup_logger", level |-> level,
                                              raised |-> s.raised])
    /\ UNCHANGED <<pc, argv, settings, files, service, requests, result, stdout,
                   exitCode, interrupted, net, retval>>

GetLoggerCall ==
    /\ pc = "logger" /\ Len(loggerCalls) < MaxLoggerCalls
    /\ LET g == get_logger(handlers, settings, files) IN
       /\ handlers' = g.handlers
       /\ loggerCalls' = Append(loggerCalls, [op |-> "get_logger", level |-> << >>,
                                              raised |-> g.raised])
    /\ UNCHANGED <<pc, argv, settings, files, service, requests, result, stdout,
                   exitCode, interrupted, net, retval>>

NextLogger ==
    \/ \E level \in LogLevels : SetupLoggerCall(level)
    \/ GetLoggerCall

SpecLogger == InitLogger /\ [][NextLogger]_vars

\* ------------------------------------------------------------ properties

GetUrl == service.base_url \o <<"/", "g", "e", "t">>

Is2xx(status) == 200 <= status /\ status < 300
IsErrorStatus(status) == 400 <= status /\ status < 600

\* the cause of a failed GET as the message shows it: the status of a 4xx or
\* 5xx response, the decoder's error for another response, else the failure
\* of the transport
Cause ==
    IF net.kind # "response" THEN net.cause
    ELSE IF IsErrorStatus(net.status) THEN <<ToString(net.status)>>
    ELSE json(net).msg

\* the call of the service has returned or raised
PingDone == argv.command = "ping" /\ net.kind # "none"
GetDone == argv.command = "get" /\ net.kind # "none"

PingEnvelope(good) ==
    PingDone =>
        /\ ~result.raised
        /\ result.value.success <=> good
        /\ result.value.success =>
               result.value.message = <<"Successfully connected to ">> \o GetUrl
        /\ ~result.value.success =>
               /\ StartsWith(result.value.message,
                             <<"Connection to ">> \o GetUrl \o <<" failed: ">>)
               /\ Contains(result.value.message, Cause)

\* C1, as stated: ping() never raises; the envelope has success = true and the
\* message 'Successfully connected to <url>' exactly when the response is 2xx,
\* and success = false with 'Connection to <url> failed: <cause>' otherwise.
\* ping() reports success for a 300 and a 304 as well.
C1_Original == PingEnvelope(net.kind = "response" /\ Is2xx(net.status))

NetworkError ==
    /\ result.raised
    /\ result.exc = "RequestException"
    /\ Contains(result.msg, GetUrl)
    /\ Contains(result.msg, Cause)

GetOutcome(good) ==
    GetDone =>
        /\ (net.kind = "response" /\ good /\ net.body.json)
               => (~result.raised /\ result.value = Decode(net.body.text))
        /\ (net.kind # "response" \/ ~good) => NetworkError

\* C2, as stated: get_with_params returns the decoded JSON of a 2xx response
\* with a JSON body, and on any non-2xx status or transport failure raises a
\* network error whose message holds the URL {base_url}/get and the cause.
\* get_with_params returns the JSON body of a 300 response instead of raising.
C2_Original == GetOutcome(net.kind = "response" /\ Is2xx(net.status))

InScope == {"parsing", "ready", "called", "caught", "returning", "unwinding"}

\* C3, as stated: the session of the service main() constructs is open inside
\* the scope and released exactly once when the scope is left, on every
\* path: the return of ping or get, a parameter-format error, an interrupt;
\* main() is never left with a constructed service whose session is open.
C3_ReleasedOnce ==
    /\ pc \in InScope =>
           service.constructed /\ service.session = "open" /\ service.closes = 0
    /\ pc = "exited" /\ service.constructed =>
           service.session = "closed" /\ service.closes = 1
    /\ pc \notin InScope \cup {"leaving", "cancelling", "cancelled", "exited"}
           => ~service.constructed

\* setup_logger raises, which the except Exception of main() turns into 1
SetupFails == setup_logger(<< >>, settings.log_level, files).raised

\* the exit code of a run that reached the dispatch and was not interrupted
DispatchCode ==
    IF SetupFails THEN 1
    ELSE IF argv.command = "none" THEN 1
    ELSE IF result.raised THEN 1
    ELSE IF argv.command = "ping" THEN (IF result.value.success THEN 0 ELSE 1)
    ELSE 0

\* C4, as stated: main() ends with exit code 1 when no command is selected,
\* 0 or 1 for ping by the envelope's success, 0 or 1 for get by whether
\* get_with_params returned, 130 on an interrupt, 1 on any other error; no
\* other exit code is reachable.
C4_Original ==
    pc = "exited" =>
        /\ exitCode.some
        /\ exitCode.v \in {0, 1, 130}
        /\ interrupted => exitCode.v = 130
        /\ (~interrupted /\ argv.command \in {"none", "ping", "get"})
               => exitCode.v = DispatchCode

\* C4, amended: whenever main() returns, its exit code is as stated: 1 for
\* no command, 0 or 1 for ping by the envelope's success, 0 or 1 for get by
\* whether get_with_params returned, 1 for any error of the logger setup (an
\* unknown level, a logs directory that cannot be made, a log file that
\* cannot be opened), 130 on an interrupt.  Besides, a command line the argument parser rejects leaves
\* main() through SystemExit with exit code 2, and -h with exit code 0, both
\* before any dispatch; and an interrupt delivered while one of the except
\* clauses of main() runs leaves main() as an uncaught KeyboardInterrupt,
\* without an exit code of its own.  No exit code other than 0, 1, 2 and
\* 130 is reachable, and main() has no exit code before it has ended.
C4_ExitCodes ==
    /\ pc = "exited" =>
           IF exitCode.some
           THEN exitCode = Some(IF interrupted THEN 130
                                ELSE IF argv.command = "bogus" THEN 2
                                ELSE IF argv.command = "help" THEN 0
                                ELSE DispatchCode)
           ELSE exitCode = Escaped /\ interrupted
    /\ pc # "exited" => exitCode = None

C4_Witness == pc = "exited" /\ exitCode = Some(2) /\ argv.command = "bogus"

\* a token without "=", or whose key, the text before the first "=", is empty
Malformed(token) == (\A i \in 1..Len(token) : token[i] # "=") \/ token[1] = "="

HasMalformed == \E i \in 1..Len(argv.params) : Malformed(argv.params[i])

\* C5: in a get invocation with a --params token that has no "=" or an empty
\* key, no GET is ever issued, wherever the token stands among the others,
\* and the invocation, unless it is interrupted, ends with exit code 1.
C5_NoGetOnMalformed ==
    (argv.command = "get" /\ HasMalformed) =>
        /\ requests = << >>
        /\ net.kind = "none"
        /\ (pc = "exited" /\ ~interrupted) => exitCode = Some(1)

C5_Witness ==
    /\ pc = "exited" /\ argv.command = "get" /\ service.constructed
    /\ Len(argv.params) = 2
    /\ ~Malformed(argv.params[1]) /\ Malformed(argv.params[2])
    /\ exitCode = Some(1) /\ requests = << >> /\ result.raised

\* the type the stated precedence gives a value
ExpectedType(value) ==
    IF lower(value) \in {<<"t", "r", "u", "e">>, <<"f", "a", "l", "s", "e">>} THEN "bool"
    ELSE IF isdigit(value) THEN "int"
    ELSE IF count(value, ".") = 1 /\ isdigit(remove(value, ".")) THEN "float"
    ELSE "str"

\* C6, as stated: parse_params is total on every token that holds "=" and has
\* a non-empty key: it yields one entry, the key mapped to one value of the
\* type the precedence boolean, integer, float, string gives, never an error.
C6_Total ==
    LET token == argv.params[1] IN
    (pc = "parsed" /\ Contains(token, <<"=">>) /\ strip(split(token).key) # << >>) =>
        /\ ~result.raised
        /\ Len(result.value) = 1
        /\ result.value[1][1] = strip(split(token).key)
        /\ result.value[1][2].t = ExpectedType(strip(split(token).value))

\* C7: the base_url the constructor stores is the given one without its
\* trailing slashes, never ends with "/", and every request URL of ping and
\* get_with_params is that base followed by "/get".
C7_BaseUrl ==
    service.constructed =>
        /\ service.base_url = << >> \/ service.base_url[Len(service.base_url)] # "/"
        /\ \E k \in 0..Len(settings.api_base_url) :
               settings.api_base_url = service.base_url \o Slashes(k)
        /\ \A i \in 1..Len(requests) : requests[i].url = service.base_url \o <<"/", "g", "e", "t">>

C7_Witness ==
    /\ pc = "exited" /\ Len(requests) = 1
    /\ Len(settings.api_base_url) = Len(service.base_url) + 2
    /\ service.base_url # << >>

\* C8, as stated: in the failure envelope of ping() status and headers are
\* those of the response when the server answered with an error status, and
\* null and the empty mapping only when there is no response.
C8_FailureEnvelope ==
    (PingDone /\ ~result.value.success) =>
        IF net.kind = "response"
        THEN result.value.status = Some(net.status) /\ result.value.headers = net.headers
        ELSE result.value.status = None /\ result.value.headers = EmptyDict

\* C9, as stated: every ping or get invocation that is dispatched and not
\* interrupted writes exactly one document to standard output, and it is
\* JSON, on the parameter-format-error path too.
C9_OneJsonDocument ==
    (pc = "exited" /\ service.constructed /\ ~interrupted) =>
        Len(stdout) = 1 /\ stdout[1].fmt = "json"

\* C10, as stated: after any sequence of setup_logger / get_logger calls the
\* sinks are those the first setup left: one console sink and one file sink.
C10_Idempotent ==
    handlers # << >> =>
        /\ Len(handlers) = 2
        /\ handlers[1].sink = "stderr" /\ handlers[2].sink = "logs/app.log"

====
